---- MODULE Spec2Model ----
(***************************************************************************)
(* Model of cloudflare-pages-cleanup: the selection engine                 *)
(* (src/src/select.ts), the Cloudflare helpers (cloudflare.ts) and the     *)
(* run orchestrator (src/src/index.ts).                                    *)
(*                                                                         *)
(* A deployment is a record [id, created_on, environment, aliases,         *)
(* branch].  created_on holds the instant that Date.parse reads from the   *)
(* ISO-8601 string (epoch ms, here a small natural); branch holds          *)
(* deployment_trigger?.metadata?.branch, NoBranch when it is absent.       *)
(***************************************************************************)
EXTENDS Integers, Sequences, FiniteSets, TLC

\* ------------------------------------------------------------ bounds
MaxDeps == 2
MaxTime == 2
MaxKeep == 2
MaxListed == 3
MaxDeletes == 2
MaxStaged == 3
MaxErrors == 2
MaxAttach == 2
MaxRuns == 3

\* ------------------------------------------------------------ data model
Environments == {"production", "preview"}

NoId == 0
NoBranch == "none"
NoCutoff == -1

Branches == {NoBranch, "feat1", "feat2"}
AliasLists == {<< >>, <<"staging.example.com">>}
Times == 0..MaxTime
Cutoffs == {NoCutoff} \cup Times
KeepCounts == 0..MaxKeep

Max(a, b) == IF a >= b THEN a ELSE b
Min(a, b) == IF a <= b THEN a ELSE b

Range(s) == {s[i] : i \in 1..Len(s)}

\* The attributes a listed deployment can have, other than its id.
Shapes == [created_on : Times, environment : Environments,
           aliases : AliasLists, branch : Branches]

Deployment(i, sh) ==
  [id |-> i, created_on |-> sh.created_on, environment |-> sh.environment,
   aliases |-> sh.aliases, branch |-> sh.branch]

\* Lists of at most MaxDeps deployments whose ids are unique (the id of a
\* deployment is its position in the list the platform returned).
DeploymentLists ==
  UNION {{[i \in 1..n |-> Deployment(i, f[i])] : f \in [1..n -> Shapes]} : n \in 0..MaxDeps}

\* ------------------------------------------------------------ cloudflare.ts
hasAliases(d) == Len(d.aliases) > 0

\* ------------------------------------------------------------ select.ts
\* Variant: the environment filter is left out.
FilterUnfiltered(deployments, env) == deployments

\* deployments.filter((d) => d.environment === env)
Filter(deployments, env) ==
  LET keep(d) == d.environment = env IN SelectSeq(deployments, keep)

\* One step of a stable insertion: d goes after every element that does not
\* sort after it, so records with equal timestamps keep their input order.
RECURSIVE InsertNewestFirst(_, _)
InsertNewestFirst(s, d) ==
  IF s = << >> THEN <<d>>
  ELSE IF Head(s).created_on >= d.created_on
       THEN <<Head(s)>> \o InsertNewestFirst(Tail(s), d)
       ELSE <<d>> \o s

\* Variant: the list is left in input order.
SortUnsorted(s) == s

\* filtered.sort((a, b) => Date.parse(b.created_on) - Date.parse(a.created_on))
RECURSIVE SortNewestFirst(_)
SortNewestFirst(s) ==
  IF s = << >> THEN << >>
  ELSE InsertNewestFirst(SortNewestFirst(SubSeq(s, 1, Len(s) - 1)), s[Len(s)])

\* Variant: the alias protection is left out.
isProtectedActiveOnly(d, env, activeProdId) ==
  env = "production" /\ activeProdId # NoId /\ d.id = activeProdId

\* Variant: the active-production protection is left out.
isProtectedAliasOnly(d, env, activeProdId) ==
  Len(d.aliases) > 0

\* const isProtected = (d) => ...
isProtected(d, env, activeProdId) ==
  \/ env = "production" /\ activeProdId # NoId /\ d.id = activeProdId
  \/ Len(d.aliases) > 0

\* Variant: the cut is maxToKeep alone.
keepCutMaxOnly(minToKeep, maxToKeep) == maxToKeep

\* const keepCut = Math.max(maxToKeep, minToKeep)
keepCutOf(minToKeep, maxToKeep) == Max(maxToKeep, minToKeep)

\* Variant: the slice ends one record early.
autoKeepSetShort(filtered, keepCut) ==
  {filtered[i].id : i \in 1..Min(keepCut - 1, Len(filtered))}

\* Variant: the window starts at the second record.
autoKeepSetSkipNewest(filtered, keepCut) ==
  {filtered[i].id : i \in 2..Min(keepCut + 1, Len(filtered))}

\* new Set(filtered.slice(0, keepCut).map((d) => d.id))
autoKeepSetOf(filtered, keepCut) ==
  {filtered[i].id : i \in 1..Min(keepCut, Len(filtered))}

\* Variant: the last record of the branch instead of the first.
oldestForBranchId(filtered, branch) ==
  LET hits == {i \in 1..Len(filtered) : filtered[i].branch = branch}
  IN IF hits = {} THEN NoId
     ELSE filtered[CHOOSE i \in hits : \A j \in hits : i >= j].id

\* filtered.find((x) => x.deployment_trigger?.metadata?.branch === branch)?.id
newestForBranchId(filtered, branch) ==
  LET hits == {i \in 1..Len(filtered) : filtered[i].branch = branch}
  IN IF hits = {} THEN NoId
     ELSE filtered[CHOOSE i \in hits : \A j \in hits : i <= j].id

\* Variant: the comparison is reversed.
olderThanCutoff(createdMs, olderThanMs) ==
  olderThanMs # NoCutoff /\ createdMs < olderThanMs

\* The age threshold test of the loop body: the candidate is kept.
newerThanCutoff(createdMs, olderThanMs) ==
  olderThanMs # NoCutoff /\ createdMs > olderThanMs

\* Variant: the newest record of the whole list instead of the newest of the
\* candidate's branch.
isListLatest(d, filtered, env) ==
  /\ env = "preview"
  /\ d.branch # NoBranch
  /\ filtered[1].id = d.id

\* The branch-latest test of the loop body: the candidate is undeletable.
isBranchLatest(d, filtered, env) ==
  /\ env = "preview"
  /\ d.branch # NoBranch
  /\ newestForBranchId(filtered, d.branch) = d.id

EmptyBucket ==
  [keptIds |-> << >>, deletedIds |-> << >>,
   skippedProtectedIds |-> << >>, skippedUndeletableIds |-> << >>]

\* Variant: a protected record is tagged but not pushed to keptIds.
LoopBodyTagNotKept(acc, d, filtered, p) ==
  LET b == acc.bucket
      createdMs == d.created_on
      keepCut == Max(p.maxToKeep, p.minToKeep)
  IN IF \/ p.env = "production" /\ p.activeProdId # NoId /\ d.id = p.activeProdId
        \/ Len(d.aliases) > 0
     THEN [acc EXCEPT !.bucket.skippedProtectedIds = Append(b.skippedProtectedIds, d.id)]
     ELSE IF d.id \in {filtered[i].id : i \in 1..Min(keepCut, Len(filtered))}
     THEN [acc EXCEPT !.bucket.keptIds = Append(b.keptIds, d.id)]
     ELSE IF p.olderThanMs # NoCutoff /\ createdMs > p.olderThanMs
     THEN [acc EXCEPT !.consideredCount = @ + 1,
                      !.bucket.keptIds = Append(b.keptIds, d.id)]
     ELSE IF /\ p.env = "preview"
             /\ d.branch # NoBranch
             /\ newestForBranchId(filtered, d.branch) = d.id
     THEN [acc EXCEPT !.consideredCount = @ + 1,
                      !.bucket.skippedUndeletableIds = Append(b.skippedUndeletableIds, d.id),
                      !.bucket.keptIds = Append(b.keptIds, d.id)]
     ELSE [acc EXCEPT !.consideredCount = @ + 1,
                      !.bucket.deletedIds = Append(b.deletedIds, d.id)]

\* Variant: considered is incremented after the exemptions, not before.
LoopBodyCountLate(acc, d, filtered, p) ==
  LET b == acc.bucket
      createdMs == d.created_on
      keepCut == Max(p.maxToKeep, p.minToKeep)
  IN IF \/ p.env = "production" /\ p.activeProdId # NoId /\ d.id = p.activeProdId
        \/ Len(d.aliases) > 0
     THEN [acc EXCEPT !.bucket.skippedProtectedIds = Append(b.skippedProtectedIds, d.id),
                      !.bucket.keptIds = Append(b.keptIds, d.id)]
     ELSE IF d.id \in {filtered[i].id : i \in 1..Min(keepCut, Len(filtered))}
     THEN [acc EXCEPT !.bucket.keptIds = Append(b.keptIds, d.id)]
     ELSE IF p.olderThanMs # NoCutoff /\ createdMs > p.olderThanMs
     THEN [acc EXCEPT !.bucket.keptIds = Append(b.keptIds, d.id)]
     ELSE IF /\ p.env = "preview"
             /\ d.branch # NoBranch
             /\ newestForBranchId(filtered, d.branch) = d.id
     THEN [acc EXCEPT !.bucket.skippedUndeletableIds = Append(b.skippedUndeletableIds, d.id),
                      !.bucket.keptIds = Append(b.keptIds, d.id)]
     ELSE [acc EXCEPT !.consideredCount = @ + 1,
                      !.bucket.deletedIds = Append(b.deletedIds, d.id)]

\* One iteration of the loop over filtered.
LoopBody(acc, d, filtered, p) ==
  LET b == acc.bucket
      createdMs == d.created_on
      keepCut == keepCutOf(p.minToKeep, p.maxToKeep)
  IN IF isProtected(d, p.env, p.activeProdId)
     THEN [acc EXCEPT !.bucket.skippedProtectedIds = Append(b.skippedProtectedIds, d.id),
                      !.bucket.keptIds = Append(b.keptIds, d.id)]
     ELSE IF d.id \in autoKeepSetOf(filtered, keepCut)
     THEN [acc EXCEPT !.bucket.keptIds = Append(b.keptIds, d.id)]
     ELSE IF newerThanCutoff(createdMs, p.olderThanMs)
     THEN [acc EXCEPT !.consideredCount = @ + 1,
                      !.bucket.keptIds = Append(b.keptIds, d.id)]
     ELSE IF isBranchLatest(d, filtered, p.env)
     THEN [acc EXCEPT !.consideredCount = @ + 1,
                      !.bucket.skippedUndeletableIds = Append(b.skippedUndeletableIds, d.id),
                      !.bucket.keptIds = Append(b.keptIds, d.id)]
     ELSE [acc EXCEPT !.consideredCount = @ + 1,
                      !.bucket.deletedIds = Append(b.deletedIds, d.id)]

RECURSIVE Loop(_, _, _, _)
Loop(acc, i, filtered, p) ==
  IF i > Len(filtered) THEN acc
  ELSE Loop(LoopBody(acc, filtered[i], filtered, p), i + 1, filtered, p)

\* Variant: the sort is applied to the caller's array.
argumentSortedInPlace(deployments, env) == SortNewestFirst(deployments)

\* The caller's array after the call: filter returns a new array and sort works
\* on that copy, no record is assigned to.
argumentAfterCall(deployments, env) == deployments

\* p = [env, deployments, activeProdId, minToKeep, maxToKeep, olderThanMs]
selectForEnvironment(p) ==
  LET filtered == SortNewestFirst(Filter(p.deployments, p.env))
  IN Loop([bucket |-> EmptyBucket, consideredCount |-> 0], 1, filtered, p)

\* ------------------------------------------------------------ utils.ts
\* An action input is the text core.getInput returns: Unset is the empty
\* string, Int(n) the decimal text of the integer n, NotInt any other text.
Unset == [text |-> "unset", n |-> 0]
IntText(n) == [text |-> "int", n |-> n]
NotInt == [text |-> "other", n |-> 0]

\* What a function returns or throws.
Ok(v) == [ok |-> TRUE, value |-> v]
Thrown == [ok |-> FALSE, value |-> 0]

parseIntStrict(s, dflt) ==
  IF s.text = "unset" THEN Ok(dflt)
  ELSE IF s.text = "int" THEN Ok(s.n)
  ELSE Thrown

\* String.prototype.toLowerCase on the texts the inputs are drawn from.
toLowerCase(s) ==
  CASE s = "PREVIEW" -> "preview"
    [] s = "All" -> "all"
    [] s = "TRUE" -> "true"
    [] s = "False" -> "false"
    [] OTHER -> s

parseBool(s, dflt) ==
  LET v == toLowerCase(s)
  IN IF v \in {"true", "1", "yes", "y"} THEN TRUE
     ELSE IF v \in {"false", "0", "no", "n"} THEN FALSE
     ELSE dflt

\* Date.now() - days * 24 * 60 * 60 * 1000; instants are counted in days.
daysAgoUtc(now, days) == now - days

NoFailure == "none"

DefaultMinToKeep == 5
DefaultMaxToKeep == 50
DefaultMaxDeletesPerRun == 50
NoDays == -1

\* Variant: maxToKeep is returned as given.
getInputsNoCoerce(raw) ==
  LET environment == toLowerCase(IF raw.environment = "" THEN "all" ELSE raw.environment)
      minToKeep == parseIntStrict(raw.minToKeep, DefaultMinToKeep)
      maxToKeep == parseIntStrict(raw.maxToKeep, DefaultMaxToKeep)
      olderThanDays == IF raw.olderThanDays.text = "unset" THEN Ok(NoDays)
                       ELSE parseIntStrict(raw.olderThanDays, 0)
      dryRun == parseBool(raw.dryRun, TRUE)
      maxDeletesPerRun == parseIntStrict(raw.maxDeletesPerRun, DefaultMaxDeletesPerRun)
      failOnError == parseBool(raw.failOnError, TRUE)
  IN IF ~minToKeep.ok \/ ~maxToKeep.ok \/ ~olderThanDays.ok \/ ~maxDeletesPerRun.ok
     THEN Thrown
     ELSE IF minToKeep.value < 0 \/ maxToKeep.value < 0 \/ maxDeletesPerRun.value < 0
     THEN Thrown
     ELSE IF raw.olderThanDays.text # "unset" /\ olderThanDays.value < 0
     THEN Thrown
     ELSE IF environment \notin {"all", "production", "preview"}
     THEN Thrown
     ELSE Ok([environment |-> environment,
              minToKeep |-> minToKeep.value,
              maxToKeep |-> maxToKeep.value,
              olderThanDays |-> olderThanDays.value,
              dryRun |-> dryRun,
              maxDeletesPerRun |-> maxDeletesPerRun.value,
              failOnError |-> failOnError])

\* raw = [environment, minToKeep, maxToKeep, olderThanDays, dryRun,
\*        maxDeletesPerRun, failOnError], the texts of the action's inputs.
getInputs(raw) ==
  LET environment == toLowerCase(IF raw.environment = "" THEN "all" ELSE raw.environment)
      minToKeep == parseIntStrict(raw.minToKeep, DefaultMinToKeep)
      maxToKeep == parseIntStrict(raw.maxToKeep, DefaultMaxToKeep)
      olderThanDays == IF raw.olderThanDays.text = "unset" THEN Ok(NoDays)
                       ELSE parseIntStrict(raw.olderThanDays, 0)
      dryRun == parseBool(raw.dryRun, TRUE)
      maxDeletesPerRun == parseIntStrict(raw.maxDeletesPerRun, DefaultMaxDeletesPerRun)
      failOnError == parseBool(raw.failOnError, TRUE)
  IN IF ~minToKeep.ok \/ ~maxToKeep.ok \/ ~olderThanDays.ok \/ ~maxDeletesPerRun.ok
     THEN Thrown
     ELSE IF minToKeep.value < 0 \/ maxToKeep.value < 0 \/ maxDeletesPerRun.value < 0
     THEN Thrown
     ELSE IF raw.olderThanDays.text # "unset" /\ olderThanDays.value < 0
     THEN Thrown
     ELSE IF environment \notin {"all", "production", "preview"}
     THEN Thrown
     ELSE Ok([environment |-> environment,
              minToKeep |-> minToKeep.value,
              maxToKeep |-> IF maxToKeep.value < minToKeep.value
                            THEN minToKeep.value ELSE maxToKeep.value,
              olderThanDays |-> olderThanDays.value,
              dryRun |-> dryRun,
              maxDeletesPerRun |-> maxDeletesPerRun.value,
              failOnError |-> failOnError])

\* The message of the error getInputs throws, in the order the code reaches
\* its throw statements; NoFailure when it returns.
getInputsError(raw) ==
  IF \/ raw.minToKeep.text = "other" \/ raw.maxToKeep.text = "other"
     \/ raw.olderThanDays.text = "other" \/ raw.maxDeletesPerRun.text = "other"
  THEN "Expected integer"
  ELSE IF \/ parseIntStrict(raw.minToKeep, DefaultMinToKeep).value < 0
          \/ parseIntStrict(raw.maxToKeep, DefaultMaxToKeep).value < 0
          \/ parseIntStrict(raw.maxDeletesPerRun, DefaultMaxDeletesPerRun).value < 0
  THEN "minToKeep, maxToKeep, maxDeletesPerRun must be >= 0"
  ELSE IF raw.olderThanDays.text # "unset" /\ parseIntStrict(raw.olderThanDays, 0).value < 0
  THEN "olderThanDays must be >= 0 if provided"
  ELSE IF ~getInputs(raw).ok
  THEN "Invalid environment"
  ELSE NoFailure

\* if (maxToKeep < minToKeep) core.warning(...): the inputs are accepted and
\* the coercion is announced.
getInputsWarns(raw) ==
  /\ getInputs(raw).ok
  /\ parseIntStrict(raw.maxToKeep, DefaultMaxToKeep).value
       < parseIntStrict(raw.minToKeep, DefaultMinToKeep).value

\* ------------------------------------------------------------ report.ts
NoBucket == [keptIds |-> <<NoId>>, deletedIds |-> << >>,
             skippedProtectedIds |-> << >>, skippedUndeletableIds |-> << >>]

initReport ==
  [summary |-> [considered |-> 0, kept |-> 0, deleted |-> 0,
                skippedProtected |-> 0, skippedUndeletable |-> 0, errors |-> 0],
   production |-> NoBucket, preview |-> NoBucket,
   errors |-> << >>]

attachBucket(report, env, bucket, considered) ==
  [report EXCEPT
     ![env] = bucket,
     !.summary.considered = @ + considered,
     !.summary.kept = @ + Len(bucket.keptIds),
     !.summary.deleted = @ + Len(bucket.deletedIds),
     !.summary.skippedProtected = @ + Len(bucket.skippedProtectedIds),
     !.summary.skippedUndeletable = @ + Len(bucket.skippedUndeletableIds)]

\* Variant: the count is taken before the push.
addErrorStale(report, entry) ==
  [report EXCEPT !.errors = Append(@, entry),
                 !.summary.errors = Len(report.errors)]

addError(report, entry) ==
  [report EXCEPT !.errors = Append(@, entry),
                 !.summary.errors = Len(report.errors) + 1]

\* ------------------------------------------------------------ cloudflare.ts
\* prod.sort(newest first); return prod[0]?.id
detectActiveProduction(ds) ==
  LET prod == SortNewestFirst(Filter(ds, "production"))
  IN IF prod = << >> THEN NoId ELSE prod[1].id

\* ------------------------------------------------------------ index.ts
\* inputs.environment === "all" ? ["production", "preview"] : [inputs.environment]
envsOf(environment) ==
  IF environment = "all" THEN <<"production", "preview">> ELSE <<environment>>

\* What client.pages.projects.get can meet: a project with a canonical
\* deployment id, a project without one, or an error; NotLookedUp before the
\* request.
NotLookedUp == [kind |-> "not called", id |-> NoId]
LookupResponses(ids) ==
  {[kind |-> "id", id |-> i] : i \in ids}
    \cup {[kind |-> "absent", id |-> NoId], [kind |-> "error", id |-> NoId]}

\* Variant: the error of the request is not caught.
getCanonicalRethrows(response) ==
  IF response.kind = "error" THEN Thrown
  ELSE IF response.kind = "id" THEN Ok(response.id)
  ELSE Ok(NoId)

\* try { ... return id } catch (e) { ... return undefined }
getCanonicalProductionDeploymentId(response) ==
  IF response.kind = "id" THEN Ok(response.id) ELSE Ok(NoId)

\* canonical ?? detectActiveProduction(all["production"])
resolveActiveProdId(canonical, production) ==
  IF canonical # NoId THEN canonical ELSE detectActiveProduction(production)

\* Variant: the active production id is not handed to the selection.
selectArgsNoActive(env, ds, active, inp, cutoff) ==
  [env |-> env, deployments |-> ds, activeProdId |-> NoId,
   minToKeep |-> inp.minToKeep, maxToKeep |-> inp.maxToKeep, olderThanMs |-> cutoff]

\* The arguments run() hands to selectForEnvironment.
selectArgs(env, ds, active, inp, cutoff) ==
  [env |-> env, deployments |-> ds, activeProdId |-> active,
   minToKeep |-> inp.minToKeep, maxToKeep |-> inp.maxToKeep, olderThanMs |-> cutoff]

\* The loop that merges the alias-protected ids into skippedProtectedIds and
\* keptIds, over deployments[i..].
RECURSIVE mergeAliasProtection(_, _, _)
mergeAliasProtection(bucket, ds, i) ==
  IF i > Len(ds) THEN bucket
  ELSE LET d == ds[i]
           b1 == IF hasAliases(d) /\ d.id \notin Range(bucket.skippedProtectedIds)
                 THEN [bucket EXCEPT
                         !.skippedProtectedIds = Append(@, d.id),
                         !.keptIds = IF d.id \in Range(bucket.keptIds)
                                     THEN @ ELSE Append(@, d.id)]
                 ELSE bucket
       IN mergeAliasProtection(b1, ds, i + 1)

\* Variant: the slice takes the last maxDeletesPerRun ids.
toDeleteOldest(deletedIds, maxDeletesPerRun) ==
  SubSeq(deletedIds, Len(deletedIds) - Min(maxDeletesPerRun, Len(deletedIds)) + 1,
         Len(deletedIds))

\* bucket.deletedIds.slice(0, inputs.maxDeletesPerRun)
toDeleteOf(deletedIds, maxDeletesPerRun) ==
  SubSeq(deletedIds, 1, Min(maxDeletesPerRun, Len(deletedIds)))

\* Variant: the dry-run flag is not consulted.
attemptsAlways(dryRun, toDelete) == toDelete

\* if (inputs.dryRun) { ... } else { for (const id of toDelete) ... }: the ids
\* the deletion loop goes through.
attemptsOf(dryRun, toDelete) == IF dryRun THEN << >> ELSE toDelete

\* Variant: deletion errors fail the run whatever failOnError is.
failurePolicyStrict(errors, failOnError) ==
  IF errors > 0 THEN "throw" ELSE "return"

\* if (report.summary.errors > 0) { if (!inputs.failOnError) { warning; return }
\* throw }: what the end of run() does.
failurePolicy(errors, failOnError) ==
  IF errors > 0
  THEN IF ~failOnError THEN "warn" ELSE "throw"
  ELSE "return"

\* The platform after it deleted the deployment id.
Without(ds, id) == LET keep(d) == d.id # id IN SelectSeq(ds, keep)

\* ------------------------------------------------------------ state
VARIABLES
  deployments,  \* the list the caller of selectForEnvironment holds
  params,       \* the arguments of the latest call of selectForEnvironment
  ret,          \* what that call returned; NotReturned before any call
  first         \* the cutoff and the result of the first call, once the call is repeated

\* The state of run() and of the platform it talks to.
VARIABLES
  pc,              \* where run() is
  platform,        \* the deployments of the project on Cloudflare
  inputs,          \* const inputs = getInputs()
  all,             \* the lists fetched per environment
  activeProdId,    \* let activeProdId
  envIdx,          \* position of the loops over envs
  bucket,          \* the bucket of the environment being processed
  consideredCount, \* its consideredCount
  toDelete,        \* const toDelete
  idx,             \* let idx: deletions attempted in this environment
  report,          \* const report
  outputs,         \* the action outputs set so far
  reported,        \* writeAndUploadReport and writeStepSummary have run
  deleteLog,       \* every call of deleteDeployment so far, with its outcome
  listLog,         \* every call of listDeployments so far, with its outcome
  warnings,        \* the core.warning calls so far
  failedWith,      \* what run() rejected with (core.setFailed), NoFailure otherwise
  lookup           \* what the project lookup of getCanonicalProductionDeploymentId met

\* The callers of the pure helpers detectActiveProduction and getInputs.
VARIABLES
  staged,    \* the list handed to detectActiveProduction
  detected,  \* what detectActiveProduction returned
  rawInputs, \* the texts core.getInput returns
  got        \* what getInputs did with them

\* The caller of the report helpers initReport, attachBucket and addError.
VARIABLES
  rpt,         \* the report the caller holds
  attachCalls, \* the number of attachBucket calls made on it
  prev         \* the call before the latest call of selectForEnvironment, and how
               \* the latest call's arguments relate to it

\* The project as a schedule runs the action on it again and again.
VARIABLES
  remote,      \* the deployments of the project on Cloudflare, over the runs
  schedule,    \* the inputs, the cutoff and the active id every run works with
  runOf,       \* runOf[ds]: the passes of a run under the schedule on the project ds,
               \* for every project ds the deletions can leave
  runsDone,    \* the number of runs made, counted up to MaxRuns
  lastRun,     \* what the latest run selected, kept and attempted to delete
  everKept,    \* the ids some run had in keptIds
  everDeleted  \* the ids some run called deleteDeployment for

selVars == <<deployments, params, ret, first>>
runVars == <<pc, platform, inputs, all, activeProdId, envIdx, bucket, consideredCount,
             toDelete, idx, report, outputs, reported, deleteLog, listLog, warnings,
             failedWith, lookup>>
fnVars == <<staged, detected, rawInputs, got>>
repVars == <<rpt, attachCalls>>
pairVars == <<prev>>
repeatVars == <<remote, schedule, runOf, runsDone, lastRun, everKept, everDeleted>>
extVars == <<repVars, pairVars, repeatVars>>
vars == <<selVars, runVars, fnVars, extVars>>

NotReturned == [bucket |-> EmptyBucket, consideredCount |-> -1]
NoFirst == [olderThanMs |-> NoCutoff, ret |-> NotReturned]
NoParams == [env |-> "production", deployments |-> << >>, activeProdId |-> NoId,
             minToKeep |-> 0, maxToKeep |-> 0, olderThanMs |-> NoCutoff]

ActiveIds(ds) == {NoId} \cup {ds[i].id : i \in 1..Len(ds)}

\* ------------------------------------------------------------ SelSpec
NoInputs == [environment |-> "all", minToKeep |-> 0, maxToKeep |-> 0,
             olderThanDays |-> NoDays, dryRun |-> TRUE, maxDeletesPerRun |-> 0,
             failOnError |-> TRUE]
NoOutputs == [consideredCount |-> -1, deletedCount |-> -1, keptCount |-> -1,
              deletedIds |-> << >>]

\* run() has not started and there is no platform.
RunIdle ==
  /\ pc = "idle"
  /\ platform = << >>
  /\ inputs = NoInputs
  /\ all = [e \in Environments |-> << >>]
  /\ activeProdId = NoId
  /\ envIdx = 1
  /\ bucket = EmptyBucket
  /\ consideredCount = 0
  /\ toDelete = << >>
  /\ idx = 0
  /\ report = initReport
  /\ outputs = NoOutputs
  /\ reported = FALSE
  /\ deleteLog = << >>
  /\ listLog = << >>
  /\ warnings = << >>
  /\ failedWith = NoFailure
  /\ lookup = NotLookedUp

\* Nobody holds a report of their own.
RepIdle ==
  /\ rpt = initReport
  /\ attachCalls = 0

NoPrev == [relation |-> "none", params |-> NoParams, ret |-> NotReturned]

\* selectForEnvironment was not called twice.
PairIdle == prev = NoPrev

NoSchedule == [environment |-> "all", minToKeep |-> 0, maxToKeep |-> 0,
               olderThanMs |-> NoCutoff, dryRun |-> TRUE, maxDeletesPerRun |-> 0,
               activeProdId |-> NoId]
NoRun == [selected |-> {}, kept |-> {}, attempts |-> << >>]

\* No schedule runs the action.
RepeatIdle ==
  /\ remote = << >>
  /\ schedule = NoSchedule
  /\ runOf = << >>
  /\ runsDone = 0
  /\ lastRun = NoRun
  /\ everKept = {}
  /\ everDeleted = {}

ExtIdle == RepIdle /\ PairIdle /\ RepeatIdle

NotDetected == [called |-> FALSE, id |-> NoId]
NoRawInputs == [environment |-> "", minToKeep |-> Unset, maxToKeep |-> Unset,
                olderThanDays |-> Unset, dryRun |-> "", maxDeletesPerRun |-> Unset,
                failOnError |-> ""]
NotGot == [called |-> FALSE, ret |-> Thrown, warned |-> FALSE]

\* Nobody calls the helpers directly.
FnIdle ==
  /\ staged = << >>
  /\ detected = NotDetected
  /\ rawInputs = NoRawInputs
  /\ got = NotGot
  /\ ExtIdle

\* Nobody calls selectForEnvironment directly.
SelIdle ==
  /\ deployments = << >>
  /\ params = NoParams
  /\ ret = NotReturned
  /\ first = NoFirst

SelInit ==
  /\ deployments \in DeploymentLists
  /\ params = NoParams
  /\ ret = NotReturned
  /\ first = NoFirst
  /\ RunIdle
  /\ FnIdle

\* A call of selectForEnvironment on the list, with any arguments.
Select ==
  /\ ret = NotReturned
  /\ \E env \in Environments, active \in ActiveIds(deployments),
        minToKeep \in KeepCounts, maxToKeep \in KeepCounts, olderThanMs \in Cutoffs :
         params' = [env |-> env, deployments |-> deployments, activeProdId |-> active,
                   minToKeep |-> minToKeep, maxToKeep |-> maxToKeep,
                   olderThanMs |-> olderThanMs]
  /\ ret' = selectForEnvironment(params')
  /\ UNCHANGED <<deployments, first, runVars, fnVars, extVars>>

\* The caller repeats the call with a cutoff further in the past, all other
\* arguments unchanged.
SelectEarlierCutoff ==
  /\ ret # NotReturned
  /\ params.olderThanMs # NoCutoff
  /\ \E c \in Times :
       /\ c < params.olderThanMs
       /\ params' = [params EXCEPT !.olderThanMs = c]
  /\ ret' = selectForEnvironment(params')
  /\ first' = IF first = NoFirst
              THEN [olderThanMs |-> params.olderThanMs, ret |-> ret]
              ELSE first
  /\ UNCHANGED <<deployments, runVars, fnVars, extVars>>

SelNext == Select \/ SelectEarlierCutoff

SelSpec == SelInit /\ [][SelNext]_vars

\* ------------------------------------------------------------ RunSpec
\* Deployments on the platform: unique ids, created at distinct instants and
\* held (and listed) in creation order, oldest first.
PlatformShapes == [created_on : Times, environment : Environments,
                   aliases : AliasLists, branch : {NoBranch, "feat1"}]

PlatformLists ==
  UNION {{[i \in 1..n |-> Deployment(i, f[i])] :
            f \in {g \in [1..n -> PlatformShapes] :
                     \A i \in 1..n, j \in 1..n : i < j => g[i].created_on < g[j].created_on}} :
         n \in 0..MaxListed}

\* The texts the workflow can give the action's inputs.
RunRawInputs ==
  [environment : {"all", "production", "preview", "staging"},
   minToKeep : {IntText(0)},
   maxToKeep : {IntText(0), IntText(1)},
   olderThanDays : {Unset, IntText(1)},
   dryRun : {"true", "false"},
   maxDeletesPerRun : {IntText(n) : n \in -1..MaxDeletes} \cup {NotInt},
   failOnError : {"true", "false"}]

\* Date.now() of the run: no deployment is created after it.
Now == MaxTime

envs == envsOf(inputs.environment)

\* inputs.olderThanDays !== undefined ? daysAgoUtc(inputs.olderThanDays) : undefined
olderThanMsOf(inp) ==
  IF inp.olderThanDays # NoDays THEN daysAgoUtc(Now, inp.olderThanDays) ELSE NoCutoff

RunInit ==
  /\ pc = "getInputs"
  /\ platform \in PlatformLists
  /\ inputs = NoInputs
  /\ all = [e \in Environments |-> << >>]
  /\ activeProdId = NoId
  /\ envIdx = 1
  /\ bucket = EmptyBucket
  /\ consideredCount = 0
  /\ toDelete = << >>
  /\ idx = 0
  /\ report = initReport
  /\ outputs = NoOutputs
  /\ reported = FALSE
  /\ deleteLog = << >>
  /\ listLog = << >>
  /\ warnings = << >>
  /\ failedWith = NoFailure
  /\ lookup = NotLookedUp
  /\ SelIdle
  /\ FnIdle

\* getInputs() returns and the report is initialised.
GetInputs ==
  /\ pc = "getInputs"
  /\ \E raw \in RunRawInputs :
       /\ getInputs(raw).ok
       /\ inputs' = getInputs(raw).value
       /\ warnings' = IF getInputsWarns(raw)
                      THEN Append(warnings, "maxToKeep < minToKeep; using minToKeep")
                      ELSE warnings
  /\ report' = initReport
  /\ envIdx' = 1
  /\ pc' = "list"
  /\ UNCHANGED <<platform, all, activeProdId, bucket, consideredCount, toDelete, idx,
                 outputs, reported, deleteLog, listLog, failedWith, lookup, selVars, fnVars, extVars>>

\* getInputs() throws: run() rejects and the catch handler fails the job.
GetInputsThrows ==
  /\ pc = "getInputs"
  /\ \E raw \in RunRawInputs :
       /\ ~getInputs(raw).ok
       /\ failedWith' = getInputsError(raw)
  /\ pc' = "failed"
  /\ UNCHANGED <<platform, inputs, all, activeProdId, envIdx, bucket, consideredCount,
                 toDelete, idx, report, outputs, reported, deleteLog, listLog, warnings,
                 lookup, selVars, fnVars, extVars>>

\* listDeployments for the next environment returns the platform's deployments
\* of that environment.
ListDeployments ==
  /\ pc = "list"
  /\ all' = [all EXCEPT ![envs[envIdx]] = Filter(platform, envs[envIdx])]
  /\ listLog' = Append(listLog, [env |-> envs[envIdx], ok |-> TRUE])
  /\ IF envIdx < Len(envs)
     THEN envIdx' = envIdx + 1 /\ pc' = "list"
     ELSE envIdx' = 1 /\ pc' = IF "production" \in Range(envs) THEN "resolve" ELSE "select"
  /\ UNCHANGED <<platform, inputs, activeProdId, bucket, consideredCount, toDelete, idx,
                 report, outputs, reported, deleteLog, warnings, failedWith, lookup, selVars, fnVars, extVars>>

\* Variant: a listing that throws is taken for an empty list and the run goes on.
ListDeploymentsSwallowed ==
  /\ pc = "list"
  /\ listLog' = Append(listLog, [env |-> envs[envIdx], ok |-> FALSE])
  /\ IF envIdx < Len(envs)
     THEN envIdx' = envIdx + 1 /\ pc' = "list"
     ELSE envIdx' = 1 /\ pc' = IF "production" \in Range(envs) THEN "resolve" ELSE "select"
  /\ UNCHANGED <<platform, inputs, all, activeProdId, bucket, consideredCount, toDelete, idx,
                 report, outputs, reported, deleteLog, warnings, failedWith, lookup, selVars, fnVars, extVars>>

\* listDeployments throws for the next environment: run() rejects.
ListDeploymentsThrows ==
  /\ pc = "list"
  /\ listLog' = Append(listLog, [env |-> envs[envIdx], ok |-> FALSE])
  /\ pc' = "failed"
  /\ failedWith' = "listing failed"
  /\ UNCHANGED <<platform, inputs, all, activeProdId, envIdx, bucket, consideredCount,
                 toDelete, idx, report, outputs, reported, deleteLog, warnings, lookup, selVars,
                 fnVars, extVars>>

\* The project lookup answers with the id of a production deployment, without
\* one, or fails; getCanonicalProductionDeploymentId turns that into an id or
\* undefined and the heuristic fills in.
ResolveActiveProduction ==
  /\ pc = "resolve"
  /\ \E response \in LookupResponses({d.id : d \in Range(Filter(platform, "production"))}) :
       LET canonical == getCanonicalProductionDeploymentId(response)
       IN /\ lookup' = response
          /\ IF canonical.ok
             THEN /\ activeProdId' = resolveActiveProdId(canonical.value, all["production"])
                  /\ pc' = "select"
                  /\ failedWith' = failedWith
             ELSE /\ activeProdId' = activeProdId
                  /\ pc' = "failed"
                  /\ failedWith' = "canonical lookup failed"
  /\ UNCHANGED <<platform, inputs, all, envIdx, bucket, consideredCount, toDelete, idx,
                 report, outputs, reported, deleteLog, listLog, warnings, selVars, fnVars,
                 extVars>>

\* The head of the per-environment loop body: selection, the merge of the alias
\* protection and the cap.
SelectEnv ==
  /\ pc = "select"
  /\ LET env == envs[envIdx]
         r == selectForEnvironment(
                selectArgs(env, all[env], activeProdId, inputs, olderThanMsOf(inputs)))
         b == mergeAliasProtection(r.bucket, all[env], 1)
         cut == toDeleteOf(b.deletedIds, inputs.maxDeletesPerRun)
     IN /\ bucket' = b
        /\ consideredCount' = r.consideredCount
        /\ toDelete' = cut
        /\ pc' = IF attemptsOf(inputs.dryRun, cut) = << >> THEN "attach" ELSE "delete"
  /\ idx' = 0
  /\ UNCHANGED <<platform, inputs, all, activeProdId, envIdx, report, outputs, reported,
                 deleteLog, listLog, warnings, failedWith, lookup, selVars, fnVars, extVars>>

\* deleteDeployment succeeds for the next id of toDelete.
DeleteSucceeds ==
  /\ pc = "delete"
  /\ idx' = idx + 1
  /\ deleteLog' = Append(deleteLog, [id |-> toDelete[idx'], env |-> envs[envIdx], ok |-> TRUE])
  /\ platform' = Without(platform, toDelete[idx'])
  /\ pc' = IF idx' = Len(toDelete) THEN "attach" ELSE "delete"
  /\ UNCHANGED <<inputs, all, activeProdId, envIdx, bucket, consideredCount, toDelete,
                 report, outputs, reported, listLog, warnings, failedWith, lookup, selVars, fnVars, extVars>>

\* Variant: the first deployment that cannot be deleted ends the batch.
DeleteThrowsAborts ==
  /\ pc = "delete"
  /\ idx' = idx + 1
  /\ deleteLog' = Append(deleteLog, [id |-> toDelete[idx'], env |-> envs[envIdx], ok |-> FALSE])
  /\ report' = addError(report, [deploymentId |-> toDelete[idx'], environment |-> envs[envIdx]])
  /\ pc' = "attach"
  /\ UNCHANGED <<platform, inputs, all, activeProdId, envIdx, bucket, consideredCount,
                 toDelete, outputs, reported, listLog, warnings, failedWith, lookup, selVars, fnVars, extVars>>

\* deleteDeployment throws for the next id of toDelete: the error is recorded.
DeleteThrows ==
  /\ pc = "delete"
  /\ idx' = idx + 1
  /\ deleteLog' = Append(deleteLog, [id |-> toDelete[idx'], env |-> envs[envIdx], ok |-> FALSE])
  /\ report' = addError(report, [deploymentId |-> toDelete[idx'], environment |-> envs[envIdx]])
  /\ pc' = IF idx' = Len(toDelete) THEN "attach" ELSE "delete"
  /\ UNCHANGED <<platform, inputs, all, activeProdId, envIdx, bucket, consideredCount,
                 toDelete, outputs, reported, listLog, warnings, failedWith, lookup, selVars, fnVars, extVars>>

\* attachBucket, the end of the per-environment loop body.
AttachBucket ==
  /\ pc = "attach"
  /\ report' = attachBucket(report, envs[envIdx], bucket, consideredCount)
  /\ IF envIdx < Len(envs)
     THEN envIdx' = envIdx + 1 /\ pc' = "select"
     ELSE envIdx' = envIdx /\ pc' = "outputs"
  /\ UNCHANGED <<platform, inputs, all, activeProdId, bucket, consideredCount, toDelete,
                 idx, outputs, reported, deleteLog, listLog, warnings, failedWith, lookup, selVars, fnVars, extVars>>

\* The four core.setOutput calls.
SetOutputs ==
  /\ pc = "outputs"
  /\ outputs' = [consideredCount |-> report.summary.considered,
                 deletedCount |-> report.summary.deleted,
                 keptCount |-> report.summary.kept,
                 deletedIds |->
                   (IF report.production = NoBucket THEN << >> ELSE report.production.deletedIds)
                   \o (IF report.preview = NoBucket THEN << >> ELSE report.preview.deletedIds)]
  /\ pc' = "report"
  /\ UNCHANGED <<platform, inputs, all, activeProdId, envIdx, bucket, consideredCount,
                 toDelete, idx, report, reported, deleteLog, listLog, warnings, failedWith, lookup, selVars, fnVars, extVars>>

\* Variant: the report is not written.
WriteReportSkipped ==
  /\ pc = "report"
  /\ pc' = "policy"
  /\ UNCHANGED <<platform, inputs, all, activeProdId, envIdx, bucket, consideredCount,
                 toDelete, idx, report, outputs, reported, deleteLog, listLog, warnings,
                 failedWith, lookup, selVars, fnVars, extVars>>

\* writeAndUploadReport and writeStepSummary.
WriteReport ==
  /\ pc = "report"
  /\ reported' = TRUE
  /\ pc' = "policy"
  /\ UNCHANGED <<platform, inputs, all, activeProdId, envIdx, bucket, consideredCount,
                 toDelete, idx, report, outputs, deleteLog, listLog, warnings, failedWith, lookup, selVars, fnVars, extVars>>

\* The failure policy at the end of run().
FailurePolicy ==
  /\ pc = "policy"
  /\ LET outcome == failurePolicy(report.summary.errors, inputs.failOnError)
     IN /\ pc' = IF outcome = "throw" THEN "failed" ELSE "done"
        /\ failedWith' = IF outcome = "throw" THEN "deletion errors" ELSE failedWith
        /\ warnings' = IF outcome = "warn"
                       THEN Append(warnings, "Deletion errors occurred, but failOnError=false")
                       ELSE warnings
  /\ UNCHANGED <<platform, inputs, all, activeProdId, envIdx, bucket, consideredCount,
                 toDelete, idx, report, outputs, reported, deleteLog, listLog, lookup, selVars,
                 fnVars, extVars>>

RunNext ==
  \/ GetInputs \/ GetInputsThrows
  \/ ListDeployments \/ ListDeploymentsThrows
  \/ ResolveActiveProduction
  \/ SelectEnv
  \/ DeleteSucceeds \/ DeleteThrows
  \/ AttachBucket
  \/ SetOutputs \/ WriteReport \/ FailurePolicy

RunSpec == RunInit /\ [][RunNext]_vars

\* ------------------------------------------------------------ DetectSpec
\* Deployments that carry latest_stage.status, NoStatus when it is absent.
NoStatus == "absent"
Statuses == {"success", "failure", NoStatus}

StagedShapes == [created_on : Times, environment : Environments, status : Statuses]

StagedDeployment(i, sh) ==
  [id |-> i, created_on |-> sh.created_on, environment |-> sh.environment,
   aliases |-> << >>, branch |-> NoBranch, latest_stage |-> sh.status]

StagedLists ==
  UNION {{[i \in 1..n |-> StagedDeployment(i, f[i])] : f \in [1..n -> StagedShapes]} :
         n \in 0..MaxStaged}

DetectInit ==
  /\ staged \in StagedLists
  /\ detected = NotDetected
  /\ rawInputs = NoRawInputs
  /\ got = NotGot
  /\ SelIdle
  /\ RunIdle
  /\ ExtIdle

\* A call of detectActiveProduction on the list.
Detect ==
  /\ ~detected.called
  /\ detected' = [called |-> TRUE, id |-> detectActiveProduction(staged)]
  /\ UNCHANGED <<staged, rawInputs, got, selVars, runVars, extVars>>

DetectNext == Detect

DetectSpec == DetectInit /\ [][DetectNext]_vars

\* ------------------------------------------------------------ InputsSpec
\* The texts a workflow can give the inputs: unset, not an integer, negative,
\* zero and positive counts, known and unknown selectors and flags.
RawInputs ==
  [environment : {"", "all", "production", "preview", "PREVIEW", "staging"},
   minToKeep : {Unset, NotInt, IntText(-1), IntText(0), IntText(2), IntText(60)},
   maxToKeep : {Unset, NotInt, IntText(-1), IntText(0), IntText(1), IntText(3)},
   olderThanDays : {Unset, NotInt, IntText(-1), IntText(0), IntText(7)},
   dryRun : {"", "TRUE", "false"},
   maxDeletesPerRun : {Unset, NotInt, IntText(-1), IntText(0), IntText(5)},
   failOnError : {"", "no"}]

InputsInit ==
  /\ rawInputs \in RawInputs
  /\ got = NotGot
  /\ staged = << >>
  /\ detected = NotDetected
  /\ SelIdle
  /\ RunIdle
  /\ ExtIdle

\* A call of getInputs.
GetInputsCall ==
  /\ ~got.called
  /\ got' = [called |-> TRUE, ret |-> getInputs(rawInputs),
             warned |-> getInputsWarns(rawInputs)]
  /\ UNCHANGED <<rawInputs, staged, detected, selVars, runVars, extVars>>

InputsNext == GetInputsCall

InputsSpec == InputsInit /\ [][InputsNext]_vars

\* ------------------------------------------------------------ ReportSpec
\* Buckets and error entries a caller can hand to the report helpers.
ReportBuckets ==
  [keptIds : {<< >>, <<1>>, <<1, 2>>}, deletedIds : {<< >>, <<3>>},
   skippedProtectedIds : {<< >>, <<1>>}, skippedUndeletableIds : {<< >>, <<2>>}]

ReportErrors == [deploymentId : {3, 4}, environment : Environments]

ReportInit ==
  /\ rpt = initReport
  /\ attachCalls = 0
  /\ PairIdle
  /\ RepeatIdle
  /\ staged = << >>
  /\ detected = NotDetected
  /\ rawInputs = NoRawInputs
  /\ got = NotGot
  /\ SelIdle
  /\ RunIdle

\* addError(report, entry)
ReportAddError ==
  /\ Len(rpt.errors) < MaxErrors
  /\ \E entry \in ReportErrors : rpt' = addError(rpt, entry)
  /\ UNCHANGED <<attachCalls, selVars, runVars, fnVars, pairVars, repeatVars>>

\* attachBucket(report, env, bucket, considered)
ReportAttachBucket ==
  /\ attachCalls < MaxAttach
  /\ \E env \in Environments, b \in ReportBuckets, considered \in 0..1 :
       rpt' = attachBucket(rpt, env, b, considered)
  /\ attachCalls' = attachCalls + 1
  /\ UNCHANGED <<selVars, runVars, fnVars, pairVars, repeatVars>>

ReportNext == ReportAddError \/ ReportAttachBucket

ReportSpec == ReportInit /\ [][ReportNext]_vars

\* ------------------------------------------------------------ PairSpec
\* Two calls of selectForEnvironment by one caller, the arguments of the second
\* derived from the first.
OtherEnv(env) == IF env = "production" THEN "preview" ELSE "production"

\* All orders of the list ds.
Orders(ds) ==
  {[i \in 1..Len(ds) |-> ds[f[i]]] :
     f \in {g \in [1..Len(ds) -> 1..Len(ds)] : \A i, j \in 1..Len(ds) : i # j => g[i] # g[j]}}

\* The lists that differ from ds in one record of the other environment: one
\* changed, one removed, or one added at the end under an unused id.  The
\* changed or added record is the newest on the platform, with any aliases and
\* any branch.
OtherEnvVariants(ds, env) ==
  LET others == {i \in 1..Len(ds) : ds[i].environment = OtherEnv(env)}
      shapes == {sh \in Shapes : sh.environment = OtherEnv(env) /\ sh.created_on = MaxTime}
      drop(i) == [k \in 1..(Len(ds) - 1) |-> IF k < i THEN ds[k] ELSE ds[k + 1]]
  IN {[ds EXCEPT ![i] = Deployment(ds[i].id, sh)] : i \in others, sh \in shapes}
     \cup {drop(i) : i \in others}
     \cup {Append(ds, Deployment(MaxDeps + 1, sh)) : sh \in shapes}

\* The records of ds that the bucket kept, in the order of ds.
KeptRecords(ds, b) == LET in(d) == d.id \in Range(b.keptIds) IN SelectSeq(ds, in)

PairInit ==
  /\ deployments \in DeploymentLists
  /\ params = NoParams
  /\ ret = NotReturned
  /\ first = NoFirst
  /\ prev = NoPrev
  /\ RepIdle
  /\ RepeatIdle
  /\ staged = << >>
  /\ detected = NotDetected
  /\ rawInputs = NoRawInputs
  /\ got = NotGot
  /\ RunIdle

\* The first call, on the list the caller holds.
PairSelect ==
  /\ ret = NotReturned
  /\ \E env \in Environments, active \in ActiveIds(deployments),
        maxToKeep \in KeepCounts, olderThanMs \in {NoCutoff, 1} :
         /\ params' = [env |-> env, deployments |-> deployments, activeProdId |-> active,
                       minToKeep |-> 0, maxToKeep |-> maxToKeep,
                       olderThanMs |-> olderThanMs]
         /\ deployments' = argumentAfterCall(deployments, env)
  /\ ret' = selectForEnvironment(params')
  /\ UNCHANGED <<first, prev, repVars, repeatVars, runVars, fnVars>>

\* The second call, on the list next and with the other arguments unchanged.
SecondCall(relation, next) ==
  /\ ret # NotReturned
  /\ prev = NoPrev
  /\ prev' = [relation |-> relation, params |-> params, ret |-> ret]
  /\ params' = [params EXCEPT !.deployments = next]
  /\ deployments' = argumentAfterCall(next, params.env)
  /\ ret' = selectForEnvironment(params')
  /\ UNCHANGED <<first, repVars, repeatVars, runVars, fnVars>>

\* The caller repeats the call with the list it still holds.
SelectAgain ==
  /\ ret # NotReturned
  /\ SecondCall("same", deployments)

\* The caller repeats the call with the list in another order.
SelectPermuted ==
  \E next \in Orders(deployments) : next # deployments /\ SecondCall("permuted", next)

\* The caller repeats the call after a record of the other environment changed.
SelectOtherEnvChanged ==
  \E next \in OtherEnvVariants(deployments, params.env) : SecondCall("otherEnv", next)

\* The caller repeats the call on the records the first call kept.
SelectOnKept ==
  /\ ret.bucket.keptIds # << >>
  /\ SecondCall("onKept", KeptRecords(Filter(deployments, params.env), ret.bucket))

PairNext ==
  \/ PairSelect
  \/ SelectAgain
  \/ SelectPermuted
  \/ SelectOtherEnvChanged
  \/ SelectOnKept

PairSpec == PairInit /\ [][PairNext]_vars

\* ------------------------------------------------------------ RepeatSpec
\* The action run again and again on one project: nothing deploys in between,
\* every run gets the same inputs, cutoff and active production id, no run is
\* dry and every deleteDeployment call succeeds.
Schedules(ds) ==
  {sc \in [environment : {"all", "production", "preview"},
            minToKeep : {0},
            maxToKeep : {0, 1},
            olderThanMs : {NoCutoff, 1},
            dryRun : {FALSE},
            maxDeletesPerRun : 1..MaxDeletes,
            activeProdId : ActiveIds(Filter(ds, "production"))] :
     sc.environment = "preview" => sc.activeProdId = NoId}

\* One pass of the loop over envs: the selection on the listing of env, the
\* alias merge, and the ids the deletion loop goes through.
RunEnv(env, listed, sc) ==
  LET r == selectForEnvironment(selectArgs(env, listed, sc.activeProdId, sc, sc.olderThanMs))
      b == mergeAliasProtection(r.bucket, listed, 1)
  IN [bucket |-> b,
      attempts |-> attemptsOf(sc.dryRun, toDeleteOf(b.deletedIds, sc.maxDeletesPerRun))]

\* The passes of one run on the project ds, in the order of envs.
RunPasses(ds, sc) ==
  LET es == envsOf(sc.environment)
  IN [k \in 1..Len(es) |-> RunEnv(es[k], Filter(ds, es[k]), sc)]

\* The project after the successful deleteDeployment calls for ids[i..].
RECURSIVE WithoutAll(_, _, _)
WithoutAll(ds, ids, i) ==
  IF i > Len(ids) THEN ds ELSE WithoutAll(Without(ds, ids[i]), ids, i + 1)

\* The deleteDeployment calls of the passes k.., in order.
RECURSIVE AttemptsFrom(_, _)
AttemptsFrom(passes, k) ==
  IF k > Len(passes) THEN << >> ELSE passes[k].attempts \o AttemptsFrom(passes, k + 1)

\* The projects that deleting deployments of ds can leave.
Remainders(ds) ==
  {LET left(d) == d.id \in ids IN SelectSeq(ds, left) :
     ids \in SUBSET {ds[i].id : i \in 1..Len(ds)}}

RepeatInit ==
  /\ remote \in PlatformLists
  /\ schedule \in Schedules(remote)
  /\ runOf = [ds \in Remainders(remote) |-> RunPasses(ds, schedule)]
  /\ runsDone = 0
  /\ lastRun = NoRun
  /\ everKept = {}
  /\ everDeleted = {}
  /\ RepIdle
  /\ PairIdle
  /\ staged = << >>
  /\ detected = NotDetected
  /\ rawInputs = NoRawInputs
  /\ got = NotGot
  /\ SelIdle
  /\ RunIdle

\* One whole run of the action under the schedule.
RepeatRun ==
  /\ schedule # NoSchedule
  /\ LET passes == runOf[remote]
         attempts == AttemptsFrom(passes, 1)
         keptIds == UNION {Range(passes[k].bucket.keptIds) : k \in 1..Len(passes)}
         selected == UNION {Range(passes[k].bucket.deletedIds) : k \in 1..Len(passes)}
     IN /\ remote' = WithoutAll(remote, attempts, 1)
        /\ lastRun' = [selected |-> selected, kept |-> keptIds, attempts |-> attempts]
        /\ everKept' = everKept \cup keptIds
        /\ everDeleted' = everDeleted \cup Range(attempts)
  /\ runsDone' = Min(runsDone + 1, MaxRuns)
  /\ UNCHANGED <<schedule, runOf, repVars, pairVars, selVars, runVars, fnVars>>

RepeatNext == RepeatRun

\* The schedule keeps running the action.
RepeatSpec == RepeatInit /\ [][RepeatNext]_vars /\ WF_vars(RepeatRun)

\* ------------------------------------------------------------ vocabulary of the claims
\* These definitions state the claims from the arguments and the result of the
\* call alone; none of them uses the operators of the selection engine.
Called == ret # NotReturned

kept == Range(ret.bucket.keptIds)
deleted == Range(ret.bucket.deletedIds)
skippedProtected == Range(ret.bucket.skippedProtectedIds)
skippedUndeletable == Range(ret.bucket.skippedUndeletableIds)

\* Positions, in the argument list, of the records of the target environment.
EnvPos == {i \in 1..Len(params.deployments) : params.deployments[i].environment = params.env}

Dep(i) == params.deployments[i]

\* Record j comes before record i in the newest-first order: it is newer, or
\* as old and earlier in the argument list.
Before(j, i) ==
  \/ Dep(j).created_on > Dep(i).created_on
  \/ Dep(j).created_on = Dep(i).created_on /\ j < i

\* Number of records of the target environment that come before record i.
Rank(i) == Cardinality({j \in EnvPos : Before(j, i)})

KeepCut == IF params.minToKeep >= params.maxToKeep THEN params.minToKeep ELSE params.maxToKeep

InWindow(i) == Rank(i) < KeepCut

HasAlias(i) == Dep(i).aliases # << >>
IsActive(i) == params.env = "production" /\ params.activeProdId # NoId /\ Dep(i).id = params.activeProdId
Protected(i) == HasAlias(i) \/ IsActive(i)
Candidate(i) == ~Protected(i) /\ ~InWindow(i)

\* ------------------------------------------------------------ claims
\* C1: on deployments with unique ids, every record of the target environment
\* has its id exactly once in keptIds ++ deletedIds and no other id appears
\* there: kept and deleted partition the ids of the env-filtered input.
C1_Partition ==
  Called =>
    /\ kept \cup deleted = {Dep(i).id : i \in EnvPos}
    /\ kept \cap deleted = {}
    /\ Len(ret.bucket.keptIds) + Len(ret.bucket.deletedIds) = Cardinality(EnvPos)

\* A call that keeps one record and deletes another.
C1_Witness ==
  /\ Called
  /\ Len(ret.bucket.keptIds) = 1
  /\ Len(ret.bucket.deletedIds) = 1

\* A call on a list that also holds a record of the other environment.
C1_WitnessOtherEnv ==
  /\ Called
  /\ Len(ret.bucket.deletedIds) = 1
  /\ Cardinality(EnvPos) < Len(params.deployments)

\* C2: in any run, deleteDeployment is never invoked with the id of a
\* deployment that has one or more aliases, nor with the id resolved as the
\* active production deployment.
Listed == Range(all["production"]) \cup Range(all["preview"])

C2_ProtectedNeverDeleted ==
  \A k \in 1..Len(deleteLog) :
    /\ deleteLog[k].id # activeProdId
    /\ \A d \in Listed : d.id = deleteLog[k].id => d.aliases = << >>

\* A run that deleted a production deployment while an older aliased one and
\* the resolved active one, which is not the newest, were listed.
C2_Witness ==
  /\ pc = "done"
  /\ \E k \in 1..Len(deleteLog), d \in Listed, a \in Listed, x \in Listed :
       /\ deleteLog[k].env = "production" /\ x.id = deleteLog[k].id
       /\ d.environment = "production" /\ d.aliases # << >>
       /\ d.created_on < x.created_on
       /\ a.id = activeProdId /\ a.aliases = << >>
       /\ a.created_on < x.created_on

\* C3: the newest min(N, keepCut) records of the target environment are all in
\* kept and none is in deleted, whatever their age, branch or protection, also
\* when maxToKeep < minToKeep.
C3_WindowKept ==
  Called =>
    \A i \in EnvPos : InWindow(i) => Dep(i).id \in kept /\ Dep(i).id \notin deleted

\* maxToKeep < minToKeep, and a record inside the window that is older than the
\* cutoff and unprotected is kept while a record beyond the window is deleted.
C3_Witness ==
  /\ Called
  /\ params.maxToKeep < params.minToKeep
  /\ params.olderThanMs # NoCutoff
  /\ \E i \in EnvPos :
       /\ InWindow(i) /\ ~Protected(i)
       /\ Dep(i).created_on < params.olderThanMs
       /\ Dep(i).id \in kept
  /\ deleted # {}

\* C4: with no protections and no exemptions, exactly the min(N, keepCut)
\* newest records are in kept and all the others are in deleted.
NoProtectionNoExemption ==
  /\ \A i \in EnvPos : ~HasAlias(i) /\ Dep(i).id # params.activeProdId
  /\ params.olderThanMs = NoCutoff
  /\ params.env = "preview" => \A i \in EnvPos : Dep(i).branch = NoBranch

C4_WindowCorrect ==
  (Called /\ NoProtectionNoExemption) =>
    /\ kept = {Dep(i).id : i \in {j \in EnvPos : InWindow(j)}}
    /\ deleted = {Dep(i).id : i \in {j \in EnvPos : ~InWindow(j)}}
    /\ Cardinality(kept) = Min(Cardinality(EnvPos), KeepCut)

\* Two records, a window of one: the newer is kept, the older deleted.
C4_Witness ==
  /\ Called /\ NoProtectionNoExemption
  /\ KeepCut = 1
  /\ Cardinality(EnvPos) = 2
  /\ Cardinality(kept) = 1 /\ Cardinality(deleted) = 1

\* C5: a record of the target environment with a non-empty alias list is in
\* kept and in skippedProtected and never in deleted, whatever its age or
\* position, also when it is the oldest record and keepCut = 0.
C5_AliasProtected ==
  Called =>
    \A i \in EnvPos : HasAlias(i) =>
      /\ Dep(i).id \in kept
      /\ Dep(i).id \in skippedProtected
      /\ Dep(i).id \notin deleted

\* keepCut = 0, the aliased record is the oldest and older than the cutoff, and
\* the newer record is deleted.
C5_Witness ==
  /\ Called
  /\ KeepCut = 0
  /\ params.olderThanMs # NoCutoff
  /\ \E i \in EnvPos :
       /\ HasAlias(i)
       /\ Dep(i).created_on < params.olderThanMs
       /\ Rank(i) = 1
       /\ Dep(i).id \in skippedProtected
  /\ deleted # {}

\* C6: in production, the record whose id is activeProductionId is in kept and
\* in skippedProtected and never in deleted, for every minToKeep, maxToKeep,
\* olderThanMs and position of that record.
C6_ActivePinned ==
  Called =>
    \A i \in EnvPos : IsActive(i) =>
      /\ Dep(i).id \in kept
      /\ Dep(i).id \in skippedProtected
      /\ Dep(i).id \notin deleted

\* minToKeep = maxToKeep = 0, the active record has no alias, is the oldest and
\* older than the cutoff, and the newer record is deleted.
C6_Witness ==
  /\ Called
  /\ params.minToKeep = 0 /\ params.maxToKeep = 0
  /\ params.olderThanMs # NoCutoff
  /\ \E i \in EnvPos :
       /\ IsActive(i) /\ ~HasAlias(i)
       /\ Dep(i).created_on < params.olderThanMs
       /\ Rank(i) = 1
       /\ Dep(i).id \in skippedProtected
  /\ deleted # {}

\* C7: when olderThanMs is supplied, no record of the target environment whose
\* createdAt is newer than or equal to the cutoff is in deleted; a candidate
\* created exactly at the cutoff instant is kept.
C7_NotOlderNeverDeleted ==
  (Called /\ params.olderThanMs # NoCutoff) =>
    \A i \in EnvPos : Dep(i).created_on >= params.olderThanMs => Dep(i).id \notin deleted

\* C8: for a fixed input, env, activeProductionId and keepCut, a cutoff further
\* in the past only moves records from deleted to kept: with c2 earlier than c1,
\* deleted(c2) is a subset of deleted(c1) and kept(c1) is a subset of kept(c2).
C8_AgeGateMonotone ==
  first # NoFirst =>
    /\ params.olderThanMs < first.olderThanMs
    /\ deleted \subseteq Range(first.ret.bucket.deletedIds)
    /\ Range(first.ret.bucket.keptIds) \subseteq kept

\* The earlier cutoff moved a record from deleted to kept.
C8_Witness ==
  /\ first # NoFirst
  /\ \E id \in Range(first.ret.bucket.deletedIds) : id \in kept

\* Record i is the newest of its branch among the records of the target
\* environment: it comes before every other record of that branch.
BranchNewest(i) ==
  \A j \in EnvPos : (j # i /\ Dep(j).branch = Dep(i).branch) => Before(i, j)

HasBranch(i) == Dep(i).branch # NoBranch

\* C9, as claimed: in preview, the newest record of every branch is in kept and
\* in skippedUndeletable, and no other record of the branch is tagged
\* skippedUndeletable.
C9_BranchLatestAlwaysTagged ==
  (Called /\ params.env = "preview") =>
    \A i \in EnvPos : HasBranch(i) =>
      /\ BranchNewest(i) => Dep(i).id \in kept /\ Dep(i).id \in skippedUndeletable
      /\ ~BranchNewest(i) => Dep(i).id \notin skippedUndeletable

\* C9, amended: in preview, the newest record of every branch is in kept; it is
\* tagged skippedUndeletable only when it is a candidate (not protected, beyond
\* the auto-keep window) that is not strictly newer than the cutoff, and always
\* when it is a candidate and there is no cutoff or it is strictly older than
\* the cutoff; no other record of the branch is tagged skippedUndeletable.
C9_BranchLatestKept ==
  (Called /\ params.env = "preview") =>
    \A i \in EnvPos : HasBranch(i) =>
      /\ BranchNewest(i) =>
           /\ Dep(i).id \in kept
           /\ Dep(i).id \in skippedUndeletable =>
                /\ Candidate(i)
                /\ ~(params.olderThanMs # NoCutoff /\ Dep(i).created_on > params.olderThanMs)
           /\ (/\ Candidate(i)
               /\ params.olderThanMs = NoCutoff \/ Dep(i).created_on < params.olderThanMs)
                => Dep(i).id \in skippedUndeletable
      /\ ~BranchNewest(i) => Dep(i).id \notin skippedUndeletable

\* keepCut = 0 and two records of one branch: the newer is tagged undeletable
\* and kept, the older is deleted.
C9_Witness ==
  /\ Called /\ params.env = "preview"
  /\ KeepCut = 0
  /\ \E i \in EnvPos, j \in EnvPos :
       /\ i # j /\ HasBranch(i) /\ Dep(j).branch = Dep(i).branch
       /\ Dep(i).created_on > Dep(j).created_on
       /\ Dep(i).id \in skippedUndeletable /\ Dep(i).id \in kept
       /\ Dep(j).id \in deleted

\* C10: consideredCount is the number of records of the target environment
\* that are neither protected nor inside the auto-keep window, whatever the age
\* and branch exemptions do: it is |deleted| plus the number of candidates the
\* exemptions kept.
C10_ConsideredCount ==
  Called =>
    /\ ret.consideredCount = Cardinality({i \in EnvPos : Candidate(i)})
    /\ ret.consideredCount =
         Len(ret.bucket.deletedIds)
           + Cardinality({i \in EnvPos : Candidate(i) /\ Dep(i).id \in kept})

\* Two candidates: one kept by an exemption, one deleted.
C10_Witness ==
  /\ Called
  /\ ret.consideredCount = 2
  /\ Len(ret.bucket.deletedIds) = 1
  /\ Len(ret.bucket.keptIds) = 1

\* C11: in every bucket selectForEnvironment returns, skippedProtected and
\* skippedUndeletable are subsets of kept and no id carries both tags.
C11_TagsWithinKept ==
  Called =>
    /\ skippedProtected \subseteq kept
    /\ skippedUndeletable \subseteq kept
    /\ skippedProtected \cap skippedUndeletable = {}

\* A preview call that tags one record protected and another undeletable, the
\* aliased record being the newest of a branch too.
C11_Witness ==
  /\ Called /\ params.env = "preview"
  /\ skippedProtected # {} /\ skippedUndeletable # {}
  /\ \E i \in EnvPos : HasAlias(i) /\ HasBranch(i) /\ BranchNewest(i) /\ ~InWindow(i)

\* ------------------------------------------------------------ claims about run()
\* The calls of deleteDeployment made for environment e, in order.
AttemptsIn(e) == LET in(a) == a.env = e IN SelectSeq(deleteLog, in)

Ids(log) == [k \in 1..Len(log) |-> log[k].id]

Succeeded == LET ok(a) == a.ok IN SelectSeq(deleteLog, ok)
Failed == LET ko(a) == ~a.ok IN SelectSeq(deleteLog, ko)

\* run() has returned or rejected.
Ended == pc \in {"done", "failed"}

\* C12: in a single run the number of deleteDeployment invocations, summed over
\* all processed environments, never exceeds maxDeletesPerRun.
C12_TotalDeletesCapped ==
  Len(deleteLog) <= inputs.maxDeletesPerRun

\* C13: when dryRun is true, deleteDeployment is never invoked at any point of
\* the run, while selection still runs for every processed environment and its
\* bucket, with the ids that would be deleted, is attached to the report.
C13_DryRunDeletesNothing ==
  inputs.dryRun =>
    /\ deleteLog = << >>
    /\ Ended /\ failedWith = NoFailure =>
         \A k \in 1..Len(envs) :
           /\ report[envs[k]] # NoBucket
           /\ report[envs[k]] =
                mergeAliasProtection(
                  selectForEnvironment(
                    selectArgs(envs[k], all[envs[k]], activeProdId, inputs,
                               olderThanMsOf(inputs))).bucket,
                  all[envs[k]], 1)

\* A dry run over both environments ended with a non-empty would-delete list
\* in each bucket of the report, a positive cap and nothing deleted.
C13_Witness ==
  /\ pc = "done" /\ inputs.dryRun /\ inputs.maxDeletesPerRun > 0
  /\ Len(envs) = 2
  /\ report.production.deletedIds # << >>
  /\ report.preview.deletedIds # << >>
  /\ Len(platform) = MaxListed

\* The capped deletion batch of environment e, read from the bucket the report
\* holds for it.
Batch(e) ==
  LET d == report[e].deletedIds
      n == IF Len(d) <= inputs.maxDeletesPerRun THEN Len(d) ELSE inputs.maxDeletesPerRun
  IN SubSeq(d, 1, n)

\* C14: in a non-dry run every id of each environment's capped deletion batch
\* gets exactly one deleteDeployment attempt, in order, whatever the earlier
\* attempts did and whatever failOnError is, and report.errors holds exactly one
\* entry, with that id and environment, per failed attempt and none for the
\* successful ones.
C14_AllAttemptedErrorsRecorded ==
  /\ (pc = "attach" /\ ~inputs.dryRun) => Ids(AttemptsIn(envs[envIdx])) = toDelete
  /\ (Ended /\ reported /\ ~inputs.dryRun) =>
       \A k \in 1..Len(envs) : Ids(AttemptsIn(envs[k])) = Batch(envs[k])
  /\ Len(report.errors) = Len(Failed)
  /\ \A k \in 1..Len(Failed) :
       /\ report.errors[k].deploymentId = Failed[k].id
       /\ report.errors[k].environment = Failed[k].env
  /\ report.summary.errors = Len(Failed)

\* A run with failOnError whose first attempt in an environment failed and
\* whose later attempt in the same environment succeeded, one error recorded.
C14_Witness ==
  /\ Ended /\ reported /\ inputs.failOnError
  /\ Len(report.errors) = 1
  /\ \E k \in 1..Len(deleteLog), l \in 1..Len(deleteLog) :
       /\ k < l /\ deleteLog[k].env = deleteLog[l].env
       /\ ~deleteLog[k].ok /\ deleteLog[l].ok

\* getInputs returned and every listDeployments call succeeded.
InputErrors ==
  {"Expected integer", "minToKeep, maxToKeep, maxDeletesPerRun must be >= 0",
   "olderThanDays must be >= 0 if provided", "Invalid environment"}

PastListing == failedWith \notin InputErrors \cup {"listing failed"}

DeletionWarning ==
  "Deletion errors occurred, but failOnError=false" \in Range(warnings)

\* C15: a run with valid inputs and successful listing ends in failure if and
\* only if at least one deletion failed and failOnError is true; with
\* failOnError false a run with deletion failures ends successfully with a
\* warning, and a run without deletion failure always ends successfully.
C15_FailurePolicy ==
  (Ended /\ PastListing) =>
    /\ pc = "failed" <=> (Failed # << >> /\ inputs.failOnError)
    /\ (Failed # << >> /\ ~inputs.failOnError) => (pc = "done" /\ DeletionWarning)
    /\ Failed = << >> => (pc = "done" /\ ~DeletionWarning)
    /\ pc = "failed" => failedWith = "deletion errors"

\* A run that ended successfully although a deletion failed.
C15_Witness ==
  /\ pc = "done" /\ ~inputs.failOnError
  /\ Failed # << >> /\ Succeeded # << >>

\* A run that failed because a deletion failed.
C15_WitnessFailed ==
  /\ pc = "failed" /\ inputs.failOnError
  /\ Failed # << >> /\ Succeeded # << >>

\* C16: in every run that gets past input validation and listing,
\* writeAndUploadReport is invoked after the last deletion attempt and before
\* the run fails or completes: no step ends such a run with the report
\* unwritten, the report is written at the step after the outputs, and no
\* deleteDeployment call and no change of the report follows it.
C16_ReportAlwaysPersisted ==
  [][/\ pc' = "done" => reported'
     /\ (pc' = "failed" /\ pc \notin {"getInputs", "list"}) => reported'
     /\ (reported' /\ ~reported) => (pc = "report" /\ report' = report)
     /\ reported => (reported' /\ deleteLog' = deleteLog /\ report' = report)]_vars

\* A run that failed on deletion errors after the report was written.
C16_Witness ==
  /\ pc = "failed" /\ reported /\ failedWith = "deletion errors"
  /\ Len(Failed) = 2

\* C17: at the end of a non-dry run the deletedCount output is the number of
\* deployments deleted in this run and the deletedIds output lists exactly the
\* ids for which deleteDeployment was invoked and succeeded.
C17_DeletedOutputsExact ==
  (Ended /\ reported /\ ~inputs.dryRun) =>
    /\ outputs.deletedCount = Len(Succeeded)
    /\ Range(outputs.deletedIds) = Range(Ids(Succeeded))

\* Positions of the production records of the list handed to
\* detectActiveProduction, and of those whose latest build succeeded.
ProdPos == {i \in 1..Len(staged) : staged[i].environment = "production"}
SuccessPos == {i \in ProdPos : staged[i].latest_stage = "success"}

\* The ids of the newest records among the positions P.
NewestIds(P) ==
  {staged[i].id : i \in {k \in P : \A j \in P : staged[j].created_on <= staged[k].created_on}}

\* C18: detectActiveProduction returns the id of the newest production record
\* whose latest build status is success; only if no production record has
\* status success it returns the newest production record; it returns
\* undefined when there is no production record, and never a preview id.
C18_PrefersNewestSuccess ==
  detected.called =>
    IF ProdPos = {} THEN detected.id = NoId
    ELSE IF SuccessPos # {} THEN detected.id \in NewestIds(SuccessPos)
    ELSE detected.id \in NewestIds(ProdPos)

\* An input that is unset or the text of a non-negative integer, and the count
\* getInputs reads from it.
ValidCount(x) == x = Unset \/ (x.text = "int" /\ x.n >= 0)
CountOf(x, dflt) == IF x = Unset THEN dflt ELSE x.n

\* C19: getInputs either throws or returns a configuration with minToKeep >= 0,
\* maxToKeep >= minToKeep, maxDeletesPerRun >= 0, olderThanDays unset or >= 0
\* and environment in {all, production, preview}; non-negative inputs with
\* maxToKeep < minToKeep are not rejected but returned with maxToKeep coerced up
\* to minToKeep, with a warning.
C19_InputsValidated ==
  got.called =>
    /\ got.ret.ok =>
         LET c == got.ret.value
         IN /\ c.minToKeep >= 0
            /\ c.maxToKeep >= c.minToKeep
            /\ c.maxDeletesPerRun >= 0
            /\ \/ c.olderThanDays = NoDays /\ rawInputs.olderThanDays = Unset
               \/ c.olderThanDays >= 0 /\ rawInputs.olderThanDays # Unset
            /\ c.environment \in {"all", "production", "preview"}
    /\ (/\ ValidCount(rawInputs.minToKeep) /\ ValidCount(rawInputs.maxToKeep)
        /\ ValidCount(rawInputs.maxDeletesPerRun) /\ ValidCount(rawInputs.olderThanDays)
        /\ rawInputs.environment \in {"", "all", "production", "preview", "PREVIEW"}
        /\ CountOf(rawInputs.maxToKeep, DefaultMaxToKeep)
             < CountOf(rawInputs.minToKeep, DefaultMinToKeep))
       => /\ got.ret.ok
          /\ got.warned
          /\ got.ret.value.minToKeep = CountOf(rawInputs.minToKeep, DefaultMinToKeep)
          /\ got.ret.value.maxToKeep = got.ret.value.minToKeep

\* min-to-keep 2 and max-to-keep 1 are accepted: maxToKeep comes back as 2,
\* with the warning.
C19_Witness ==
  /\ got.called /\ got.ret.ok /\ got.warned
  /\ rawInputs.minToKeep = IntText(2) /\ rawInputs.maxToKeep = IntText(1)
  /\ got.ret.value.maxToKeep = 2

\* A negative only-older-than-days is rejected.
C19_WitnessThrows ==
  /\ got.called /\ ~got.ret.ok
  /\ rawInputs.olderThanDays = IntText(-1)
  /\ ValidCount(rawInputs.minToKeep) /\ ValidCount(rawInputs.maxToKeep)
  /\ ValidCount(rawInputs.maxDeletesPerRun)
  /\ rawInputs.environment = "all"

\* C20: a configuration error fails the run before any listing or deletion,
\* and no deleteDeployment call occurs before listDeployments has succeeded for
\* every processed environment: a listing failure in any environment ends the
\* run with zero deletions.
C20_FailBeforeSideEffects ==
  /\ failedWith \in InputErrors => (pc = "failed" /\ listLog = << >> /\ deleteLog = << >>)
  /\ deleteLog # << >> =>
       /\ Len(listLog) = Len(envs)
       /\ \A k \in 1..Len(envs) : listLog[k] = [env |-> envs[k], ok |-> TRUE]
  /\ (\E l \in 1..Len(listLog) : ~listLog[l].ok) =>
       (pc = "failed" /\ failedWith = "listing failed" /\ deleteLog = << >> /\ ~reported)

\* A non-dry run over both environments that listed production, where a
\* deployment was up for deletion, and then failed to list preview.
C20_Witness ==
  /\ pc = "failed" /\ ~inputs.dryRun /\ inputs.maxDeletesPerRun > 0
  /\ inputs.maxToKeep = 0
  /\ listLog = <<[env |-> "production", ok |-> TRUE], [env |-> "preview", ok |-> FALSE]>>
  /\ Len(all["production"]) >= 2
  /\ \A d \in Range(all["production"]) : d.aliases = << >>
  /\ deleteLog = << >>

\* A run whose max-deletes-per-run was negative, and one whose input was not
\* an integer.
C20_WitnessInputs ==
  /\ pc = "failed" /\ Len(platform) = MaxListed
  /\ failedWith = "minToKeep, maxToKeep, maxDeletesPerRun must be >= 0"

C20_WitnessNotInt ==
  /\ pc = "failed" /\ Len(platform) = MaxListed
  /\ failedWith = "Expected integer"

\* C21: when only the required inputs are supplied, getInputs returns
\* environment all, minToKeep 5, maxToKeep 10, olderThanDays unset, dryRun true,
\* maxDeletesPerRun 50 and failOnError true.
C21_Defaults ==
  (got.called /\ rawInputs = NoRawInputs) =>
    /\ got.ret.ok
    /\ got.ret.value = [environment |-> "all", minToKeep |-> 5, maxToKeep |-> 10,
                        olderThanDays |-> NoDays, dryRun |-> TRUE,
                        maxDeletesPerRun |-> 50, failOnError |-> TRUE]

\* C22: after any sequence of addError and attachBucket calls on a report
\* created by initReport, summary.errors equals the number of entries of
\* report.errors; each addError appends one entry, raises the count by one and
\* leaves the other summary fields and the buckets unchanged.
C22_ErrorCount ==
  /\ [](rpt.summary.errors = Len(rpt.errors))
  /\ [][rpt'.errors # rpt.errors =>
          /\ Len(rpt'.errors) = Len(rpt.errors) + 1
          /\ SubSeq(rpt'.errors, 1, Len(rpt.errors)) = rpt.errors
          /\ rpt'.summary = [rpt.summary EXCEPT !.errors = @ + 1]
          /\ rpt'.production = rpt.production
          /\ rpt'.preview = rpt.preview]_vars

\* Two errors were added and two buckets attached, the last error after a
\* bucket that counted records.
C22_Witness ==
  /\ Len(rpt.errors) = 2 /\ attachCalls = 2
  /\ rpt.summary.errors = 2
  /\ rpt.summary.kept = 3 /\ rpt.summary.deleted = 2 /\ rpt.summary.considered = 1

\* Record i is kept by the age exemption when it is reached as a candidate.
AgeExempt(i) == params.olderThanMs # NoCutoff /\ Dep(i).created_on > params.olderThanMs

C23_WitnessProduction ==
  /\ Called /\ params.env = "production"
  /\ \E i \in EnvPos : HasBranch(i) /\ BranchNewest(i) /\ Dep(i).id \in deleted

\* ------------------------------------------------------------ claims about two calls
\* The records of environment e in the list ds, in order.
EnvRecords(ds, e) == LET in(d) == d.environment = e IN SelectSeq(ds, in)

\* The four sets of a bucket and the count returned with it.
Outcome(r) ==
  [kept |-> Range(r.bucket.keptIds), deleted |-> Range(r.bucket.deletedIds),
   skippedProtected |-> Range(r.bucket.skippedProtectedIds),
   skippedUndeletable |-> Range(r.bucket.skippedUndeletableIds),
   consideredCount |-> r.consideredCount]

DistinctCreatedAt(ds) ==
  \A i \in 1..Len(ds), j \in 1..Len(ds) : i # j => ds[i].created_on # ds[j].created_on

\* C24: the bucket and consideredCount returned for env depend only on the
\* records whose environment equals env: adding, removing or changing a record
\* of the other environment, also one that shares a branch name or has
\* aliases, never changes the result.
C24_OtherEnvIrrelevant ==
  (/\ prev.relation = "otherEnv"
   /\ EnvRecords(params.deployments, params.env)
        = EnvRecords(prev.params.deployments, params.env))
    => ret = prev.ret

\* The second call saw a new, newest record of the other environment with an
\* alias and the branch of a record of env, and returned the same non-empty
\* deletion list and the same undeletable tag.
C24_Witness ==
  /\ prev.relation = "otherEnv" /\ params.env = "preview"
  /\ Len(params.deployments) > Len(prev.params.deployments)
  /\ ret.bucket.deletedIds # << >>
  /\ \E i \in EnvPos :
       /\ Dep(i).id \in skippedUndeletable
       /\ Dep(Len(params.deployments)).branch = Dep(i).branch
       /\ Dep(Len(params.deployments)).aliases # << >>
       /\ Dep(Len(params.deployments)).created_on > Dep(i).created_on

\* C25: for inputs whose records have pairwise distinct createdAt, every
\* permutation of the deployments list yields the same kept, deleted,
\* skippedProtected and skippedUndeletable sets and the same consideredCount.
C25_OrderIrrelevant ==
  (prev.relation = "permuted" /\ DistinctCreatedAt(params.deployments))
    => Outcome(ret) = Outcome(prev.ret)

\* Two records of env were handed over oldest first and then newest first: one
\* is kept, the other deleted, both times.
C25_Witness ==
  /\ prev.relation = "permuted" /\ DistinctCreatedAt(params.deployments)
  /\ Cardinality(EnvPos) = 2
  /\ prev.params.deployments[1].created_on < prev.params.deployments[2].created_on
  /\ params.deployments[1] = prev.params.deployments[2]
  /\ Cardinality(kept) = 1 /\ Cardinality(deleted) = 1

C28_IdempotentOnKept ==
  prev.relation = "onKept" =>
    /\ {d.id : d \in Range(params.deployments)} = Range(prev.ret.bucket.keptIds)
    /\ deleted = {}
    /\ kept = Range(prev.ret.bucket.keptIds)

\* The first call deleted a record and kept one beyond the window; the second
\* call, on the kept record alone, kept it again.
C28_Witness ==
  /\ prev.relation = "onKept"
  /\ prev.ret.bucket.deletedIds # << >>
  /\ Len(prev.ret.bucket.keptIds) > params.maxToKeep
  /\ kept # {}

\* The ids of the newest production records the listing returned.
NewestListedProduction ==
  {d.id : d \in {x \in Range(all["production"]) :
                   \A y \in Range(all["production"]) : y.created_on <= x.created_on}}

\* C27: when production is processed, the active id handed to the selection is
\* the canonical id whenever the lookup returns one, and the heuristic result
\* only when the lookup returns nothing or fails; a failed lookup never fails
\* the run, and when only preview is processed no active id is resolved.
C27_CanonicalFirst ==
  /\ lookup.kind = "id" => activeProdId = lookup.id
  /\ lookup.kind \in {"absent", "error"} =>
       IF all["production"] = << >> THEN activeProdId = NoId
       ELSE activeProdId \in NewestListedProduction
  /\ lookup.kind # "not called" => (pc # "resolve" /\ "production" \in Range(envs))
  /\ (pc \in {"select", "delete", "attach"} /\ "production" \in Range(envs))
       => lookup.kind # "not called"
  /\ failedWith # "canonical lookup failed"
  /\ inputs.environment = "preview" => (lookup = NotLookedUp /\ activeProdId = NoId)

\* A run whose lookup failed went on with the heuristic id, deleted an older
\* production deployment and completed.
C27_Witness ==
  /\ pc = "done" /\ lookup.kind = "error"
  /\ activeProdId # NoId
  /\ \E k \in 1..Len(deleteLog) : deleteLog[k].env = "production" /\ deleteLog[k].ok

\* A run whose lookup returned an id that is not the newest production
\* deployment, which the run deleted.
C27_WitnessCanonical ==
  /\ pc = "done" /\ lookup.kind = "id"
  /\ activeProdId \notin NewestListedProduction
  /\ \E k \in 1..Len(deleteLog) : deleteLog[k].id \in NewestListedProduction

\* A preview-only run that deleted a deployment.
C27_WitnessPreviewOnly ==
  /\ pc = "done" /\ inputs.environment = "preview" /\ deleteLog # << >>

\* The creation time of the listed record of environment e with the given id.
CreatedOn(e, id) == (CHOOSE d \in Range(all[e]) : d.id = id).created_on

\* The deletion loop of the current environment of a non-dry run is over and
\* its bucket holds more ids than maxDeletesPerRun.
LoopOverCapped ==
  /\ pc = "attach" /\ ~inputs.dryRun
  /\ Len(bucket.deletedIds) > inputs.maxDeletesPerRun

\* C29: when an environment's deleted set is larger than maxDeletesPerRun,
\* deleteDeployment is invoked for the first maxDeletesPerRun ids of the
\* newest-first selection order, newest first, and every selected deployment
\* left undeleted is older than every one that was attempted.
C29_CapLeavesOldest ==
  LoopOverCapped =>
    LET e == envs[envIdx]
        d == bucket.deletedIds
        n == inputs.maxDeletesPerRun
        a == Ids(AttemptsIn(e))
    IN /\ \A i \in 1..Len(d), j \in 1..Len(d) :
            i < j => CreatedOn(e, d[i]) > CreatedOn(e, d[j])
       /\ a = SubSeq(d, 1, n)
       /\ \A i \in 1..Len(a), j \in 1..Len(a) :
            i < j => CreatedOn(e, a[i]) > CreatedOn(e, a[j])
       /\ \A k \in (n + 1)..Len(d) :
            /\ d[k] \notin Range(a)
            /\ \A i \in 1..Len(a) : CreatedOn(e, a[i]) > CreatedOn(e, d[k])

\* A loop that made two attempts and left a third, older, selected deployment.
C29_Witness ==
  /\ LoopOverCapped
  /\ inputs.maxDeletesPerRun = 2
  /\ Len(AttemptsIn(envs[envIdx])) = 2
  /\ Len(bucket.deletedIds) = 3

\* A loop that attempted one deletion out of a larger selection.
C29_WitnessOne ==
  /\ LoopOverCapped
  /\ inputs.maxDeletesPerRun = 1
  /\ Len(AttemptsIn(envs[envIdx])) = 1

\* The ids the selection of a run on the project as it is now puts in deletedIds.
Pending ==
  LET passes == RunPasses(remote, schedule)
  IN UNION {Range(passes[k].bucket.deletedIds) : k \in 1..Len(passes)}

\* C30: with dryRun false, maxDeletesPerRun >= 1, a fixed cutoff and active
\* production id, no new deployments and every delete succeeding, repeated runs
\* eventually reach a project on which the selection yields an empty deleted
\* set and stay there; from then on a run makes no deleteDeployment call; and a
\* deployment some run kept is never deleted by a later run.
C30_RepeatedRunsSettle ==
  /\ <>[](Pending = {})
  /\ [][(Pending = {}) => (lastRun'.attempts = << >> /\ remote' = remote)]_vars
  /\ [][everKept \cap Range(lastRun'.attempts) = {}]_vars
  /\ [](everKept \cap everDeleted = {})

\* Two runs each deleted under a cap of one, a later run selected nothing and
\* made no call, and the deployments the runs kept are still on the project.
C30_Witness ==
  /\ runsDone >= 3
  /\ schedule.maxDeletesPerRun = 1
  /\ Cardinality(everDeleted) >= 2
  /\ Pending = {} /\ lastRun.attempts = << >>
  /\ everKept # {}
  /\ everKept \subseteq {remote[i].id : i \in 1..Len(remote)}

====
